---- MODULE Spec2Model ----
\* BQ25790 battery monitor: the Flask request handlers of monitor.py (cache
\* slot, global lock, lazily created driver instance) on top of the register
\* driver of bq25790_driver.py.
\*
\* Units: time is counted in whole seconds; voltages are in mV,
\* currents in mA, powers in mW and temperatures in tenths of a degree Celsius,
\* so that the driver's floats rounded to 3 (resp. 1) decimals are integers.
EXTENDS Integers, Sequences, FiniteSets, TLC

\* ---------------------------------------------------------------- bounds
NumHandlers == 2
MaxTime == 2
MaxVer == 2

\* ------------------------------------------------- bq25790_driver.py:14-43
REG_CHARGER_STATUS_0 == 27
REG_CHARGER_STATUS_1 == 28
REG_CHARGER_STATUS_2 == 29
REG_FAULT_STATUS_0 == 32
REG_FAULT_STATUS_1 == 33
REG_ADC_CTRL == 37
REG_IBUS_ADC == 39
REG_IBAT_ADC == 41
REG_VBUS_ADC == 43
REG_VBAT_ADC == 49
REG_VSYS_ADC == 51
REG_TDIE_ADC == 55
ADC_ENABLE == 128

\* monitor.py:21  cache_timeout = 1.0 (seconds)
cache_timeout == 1

Handlers == 1..NumHandlers
None == 0

DataEndpoints == {"battery", "voltage", "current", "status", "temperature", "faults"}
Endpoints == DataEndpoints \cup {"health"}

\* ------------------------------------------------------------- bus programs
\* One bus operation: a byte write, a byte read, or the settling sleep.
Wr(reg, val) == [op |-> "write", reg |-> reg, val |-> val]
Rd(reg) == [op |-> "read", reg |-> reg, val |-> 0]
Sleep == [op |-> "sleep", reg |-> 0, val |-> 0]

read_register(register) == <<Rd(register)>>

read_register_16bit(register) == <<Rd(register), Rd(register + 1)>>

write_register(register, value) == <<Wr(register, value)>>

enable_adc == write_register(REG_ADC_CTRL, ADC_ENABLE) \o <<Sleep>>

get_battery_voltage == read_register_16bit(REG_VBAT_ADC)

get_battery_current == read_register_16bit(REG_IBAT_ADC)

get_system_voltage == read_register_16bit(REG_VSYS_ADC)

get_bus_voltage == read_register_16bit(REG_VBUS_ADC)

get_bus_current == read_register_16bit(REG_IBUS_ADC)

get_die_temperature == read_register_16bit(REG_TDIE_ADC)

get_charger_status ==
  read_register(REG_CHARGER_STATUS_0) \o read_register(REG_CHARGER_STATUS_1)
    \o read_register(REG_CHARGER_STATUS_2)

get_fault_status ==
  read_register(REG_FAULT_STATUS_0) \o read_register(REG_FAULT_STATUS_1)

\* Mutant: every register is read once, VBUS and IBUS before TDIE.
get_all_data_ReadOnce ==
  enable_adc
    \o get_battery_voltage \o get_battery_current
    \o get_system_voltage
    \o get_bus_voltage \o get_bus_current
    \o get_die_temperature
    \o get_charger_status \o get_fault_status

\* The dict literal of get_all_data is evaluated top to bottom, left to right.
get_all_data ==
  enable_adc
    \o get_battery_voltage \o get_battery_current
    \o get_battery_voltage \o get_battery_current
    \o get_system_voltage \o get_die_temperature
    \o get_bus_voltage \o get_bus_current
    \o get_bus_voltage \o get_bus_current
    \o get_charger_status \o get_fault_status

\* The driver call each endpoint makes inside its `with bq_lock:` block.
DriverCall(e) ==
  CASE e = "battery" -> get_all_data
    [] e = "voltage" -> get_battery_voltage
    [] e = "current" -> get_battery_current
    [] e = "status" -> get_charger_status
    [] e = "temperature" -> get_die_temperature
    [] e = "faults" -> get_fault_status
    [] OTHER -> <<>>

AdcRegs ==
  UNION {{r, r + 1} : r \in {REG_VBAT_ADC, REG_IBAT_ADC, REG_VSYS_ADC,
                              REG_VBUS_ADC, REG_IBUS_ADC, REG_TDIE_ADC}}

\* ------------------------------------------------------------------ decoder
\* (msb << 8) | lsb of read_register_16bit, for two bytes.
Word(msb, lsb) == (msb * 256) + lsb

\* bool(x & mask) for a single-bit mask.
Bit(x, mask) == (x \div mask) % 2 = 1

\* round(n / 1000) as Python rounds: to nearest, ties to the even neighbour.
round_milli(n) ==
  LET q == n \div 1000
      r == n % 1000
  IN  IF r < 500 THEN q
      ELSE IF r > 500 THEN q + 1
      ELSE IF q % 2 = 0 THEN q ELSE q + 1

\* raw / 1000.0 V, kept in mV.
decode_voltage(raw) == raw

\* Mutant: the sign conversion is left out.
decode_signed_current_Unsigned(raw) == raw

\* two's complement, raw / 1000.0 A, kept in mA.
decode_signed_current(raw) == IF raw > 32767 THEN raw - 65536 ELSE raw

\* get_bus_current applies no sign conversion.
decode_unsigned_current(raw) == raw

\* raw * 0.5 - 40.0 degrees, kept in tenths of a degree.
decode_temperature(raw) == (raw * 5) - 400

charge_status_str(n) ==
  CASE n = 0 -> "Not Charging"
    [] n = 1 -> "Trickle Charge"
    [] n = 2 -> "Pre-charge"
    [] n = 3 -> "Fast Charge (CC)"
    [] n = 4 -> "Taper Charge (CV)"
    [] n = 5 -> "Reserved"
    [] n = 6 -> "Top-off Timer"
    [] n = 7 -> "Charge Termination Done"
    [] OTHER -> "Unknown"

vbus_status_str(n) ==
  CASE n = 0 -> "No Input"
    [] n = 1 -> "USB SDP (500mA)"
    [] n = 2 -> "USB CDP (1.5A)"
    [] n = 3 -> "USB DCP (3A)"
    [] n = 4 -> "Adjustable HV DCP"
    [] n = 5 -> "Unknown Adapter"
    [] n = 6 -> "Non-Standard Adapter"
    [] n = 7 -> "OTG"
    [] OTHER -> "Unknown"

\* Mutant: the charge status is taken one bit lower, from bits [6:4].
decode_charger_status_Shift4(status0, status1, status2) ==
  [charging |-> Bit(status1, 16),
   charge_status |-> charge_status_str((status1 \div 16) % 8),
   vbus_present |-> Bit(status0, 128),
   vbus_status |-> vbus_status_str((status0 \div 32) % 8),
   battery_present |-> ~Bit(status2, 8),
   power_good |-> Bit(status0, 4)]

decode_charger_status(status0, status1, status2) ==
  [charging |-> Bit(status1, 16),
   charge_status |-> charge_status_str((status1 \div 32) % 8),
   vbus_present |-> Bit(status0, 128),
   vbus_status |-> vbus_status_str((status0 \div 32) % 8),
   battery_present |-> ~Bit(status2, 8),
   power_good |-> Bit(status0, 4)]

\* Mutant: vbus_ovp is tested with the two-bit mask 0x06.
decode_fault_status_WideMask(fault0, fault1) ==
  [vac1_ovp |-> Bit(fault0, 128),
   vac2_ovp |-> Bit(fault0, 64),
   conv_ocp |-> Bit(fault0, 32),
   ibat_reg |-> Bit(fault0, 16),
   ibus_reg |-> Bit(fault0, 8),
   vbat_ovp |-> Bit(fault0, 4),
   vbus_ovp |-> (Bit(fault0, 4) \/ Bit(fault0, 2)),
   vsys_ovp |-> Bit(fault1, 128),
   tshut |-> Bit(fault1, 64),
   bat_temp_fault |-> Bit(fault1, 8)]

decode_fault_status(fault0, fault1) ==
  [vac1_ovp |-> Bit(fault0, 128),
   vac2_ovp |-> Bit(fault0, 64),
   conv_ocp |-> Bit(fault0, 32),
   ibat_reg |-> Bit(fault0, 16),
   ibus_reg |-> Bit(fault0, 8),
   vbat_ovp |-> Bit(fault0, 4),
   vbus_ovp |-> Bit(fault0, 2),
   vsys_ovp |-> Bit(fault1, 128),
   tshut |-> Bit(fault1, 64),
   bat_temp_fault |-> Bit(fault1, 8)]

\* The 16-bit raw value whose two bytes are at positions i and i+1 of the
\* bytes a driver call has read so far.
RawAt(bytes, i) == Word(bytes[i], bytes[i + 1])

\* The dict get_all_data returns, from the 25 bytes it read (in the order of
\* the program above) and the wall clock at its end.
all_data(bytes, t) ==
  [battery |-> [voltage |-> decode_voltage(RawAt(bytes, 1)),
                current |-> decode_signed_current(RawAt(bytes, 3)),
                power |-> round_milli(decode_voltage(RawAt(bytes, 5))
                                        * decode_signed_current(RawAt(bytes, 7)))],
   system |-> [voltage |-> decode_voltage(RawAt(bytes, 9)),
               temperature |-> decode_temperature(RawAt(bytes, 11))],
   input |-> [voltage |-> decode_voltage(RawAt(bytes, 13)),
              current |-> decode_unsigned_current(RawAt(bytes, 15)),
              power |-> round_milli(decode_voltage(RawAt(bytes, 17))
                                      * decode_unsigned_current(RawAt(bytes, 19)))],
   status |-> decode_charger_status(bytes[21], bytes[22], bytes[23]),
   faults |-> decode_fault_status(bytes[24], bytes[25]),
   timestamp |-> t]

\* What the driver call of endpoint e returns once all its bytes are read.
DriverResult(e, bytes, t) ==
  CASE e = "battery" -> all_data(bytes, t)
    [] e = "voltage" -> [voltage |-> decode_voltage(RawAt(bytes, 1))]
    [] e = "current" -> [current |-> decode_signed_current(RawAt(bytes, 1))]
    [] e = "temperature" -> [temperature |-> decode_temperature(RawAt(bytes, 1))]
    [] e = "status" -> decode_charger_status(bytes[1], bytes[2], bytes[3])
    [] e = "faults" -> decode_fault_status(bytes[1], bytes[2])
    [] OTHER -> [none |-> TRUE]

\* --------------------------------------------------------------- the chip
\* Register file of the chip at conversion number v: the battery readings
\* change from one conversion to the next, the rest is steady.
ChipWord(v, reg) ==
  CASE reg = REG_VBAT_ADC -> 3700 + (300 * v)
    [] reg = REG_IBAT_ADC -> (65036 + (1000 * v)) % 65536
    [] reg = REG_VSYS_ADC -> 3600
    [] reg = REG_VBUS_ADC -> 5000
    [] reg = REG_IBUS_ADC -> 1000
    [] reg = REG_TDIE_ADC -> 130
    [] OTHER -> 0

WordRegs ==
  {REG_VBAT_ADC, REG_IBAT_ADC, REG_VSYS_ADC, REG_VBUS_ADC, REG_IBUS_ADC, REG_TDIE_ADC}

\* bus.read_byte_data(address, reg) on a chip at conversion v.
RegByte(v, reg) ==
  IF reg \in WordRegs THEN ChipWord(v, reg) \div 256
  ELSE IF (reg - 1) \in WordRegs THEN ChipWord(v, reg - 1) % 256
  ELSE CASE reg = REG_CHARGER_STATUS_0 -> 132
         [] reg = REG_CHARGER_STATUS_1 -> 48
         [] reg = REG_CHARGER_STATUS_2 -> 0
         [] reg = REG_FAULT_STATUS_0 -> 130
         [] reg = REG_FAULT_STATUS_1 -> 0
         [] OTHER -> 0

\* ------------------------------------------------------------------- state
VARIABLES
  clock,        \* time.time(), in seconds
  ver,          \* conversion number of the chip's register file
  adc,          \* the chip's ADC: "off", "enabled" (not settled yet), "settled"
  bq_lock,      \* monitor.py:17, None or the handler holding it
  bq_instance,  \* monitor.py:18, None or the number of the open handle
  last_error,   \* monitor.py:19
  cache,        \* monitor.py:20, the dict {} or {'data', 'timestamp'}
  opens,        \* number of bus handles opened so far (smbus2.SMBus(...))
  pc,           \* where each handler is in its request
  endpoint,     \* the route each handler serves
  now,          \* local `now` of get_battery_info
  trace,        \* bus operations of the handler's driver call, in order
  data,         \* local result of the driver call
  resp,         \* the response of the handler's last request
  captured,     \* the handler has called get_all_data in this request
  solo,         \* no other request has been in progress during this one
  din,          \* raw register bytes handed to a decoder of the driver
  dout          \* what the decoder returned for them

vars ==
  <<clock, ver, adc, bq_lock, bq_instance, last_error, cache, opens, pc, endpoint,
    now, trace, data, resp, captured, solo, din, dout>>

EmptyDict == [k \in {} |-> 0]
NoData == [none |-> TRUE]
NoResp == [code |-> 0, body |-> NoData]
\* The JSON error body, carrying str(e) of the exception.
ErrorBody(e) == [error |-> e]

\* No decoder input: the service itself is running.
NoInput == [fn |-> "none", a |-> 0, b |-> 0, c |-> 0]

\* The globals of monitor.py at import, the chip at power-up, no request yet.
ServiceInit ==
  /\ clock = 0
  /\ ver = 0
  /\ adc = "off"
  /\ bq_lock = None
  /\ bq_instance = None
  /\ last_error = "None"
  /\ cache = EmptyDict
  /\ opens = 0
  /\ pc = [h \in Handlers |-> "idle"]
  /\ endpoint = [h \in Handlers |-> "health"]
  /\ now = [h \in Handlers |-> 0]
  /\ trace = [h \in Handlers |-> <<>>]
  /\ data = [h \in Handlers |-> NoData]
  /\ resp = [h \in Handlers |-> NoResp]
  /\ captured = [h \in Handlers |-> FALSE]
  /\ solo = [h \in Handlers |-> FALSE]

Init ==
  /\ ServiceInit
  /\ din = NoInput
  /\ dout = NoData

\* The request of handler h is in progress.
Active(h) == pc[h] \notin {"idle", "done"}

\* The bytes read so far by a driver call, in order.
ReadBytes(tr) ==
  LET rd == SelectSeq(tr, LAMBDA o : o.op = "read")
  IN  [i \in 1..Len(rd) |-> rd[i].val]

\* ----------------------------------------------------------- the cache gate
\* monitor.py:62  'data' in cache and (now - cache.get('timestamp', 0)) < cache_timeout
cache_get_timestamp(c) == IF "timestamp" \in DOMAIN c THEN c["timestamp"] ELSE 0

IsFresh(c, t) == "data" \in DOMAIN c /\ (t - cache_get_timestamp(c)) < cache_timeout

\* ------------------------------------------------------------------ actions
\* A request for route e arrives at handler h; /battery reads the clock.
Start(h, e) ==
  /\ ~Active(h)
  /\ endpoint' = [endpoint EXCEPT ![h] = e]
  /\ pc' = [pc EXCEPT ![h] = CASE e = "battery" -> "check"
                                [] e = "health" -> "getinst"
                                [] OTHER -> "acquire"]
  /\ now' = [now EXCEPT ![h] = IF e = "battery" THEN clock ELSE 0]
  /\ trace' = [trace EXCEPT ![h] = <<>>]
  /\ data' = [data EXCEPT ![h] = NoData]
  /\ resp' = [resp EXCEPT ![h] = NoResp]
  /\ captured' = [captured EXCEPT ![h] = FALSE]
  /\ solo' = [g \in Handlers |-> g = h /\ \A o \in Handlers \ {h} : ~Active(o)]
  /\ UNCHANGED <<din, dout, clock, ver, adc, bq_lock, bq_instance, last_error, cache, opens>>

\* Mutant: a snapshot exactly cache_timeout old still counts as fresh.
CheckCache_Inclusive(h) ==
  /\ pc[h] = "check"
  /\ pc' = [pc EXCEPT ![h] =
             IF "data" \in DOMAIN cache /\ (now[h] - cache_get_timestamp(cache)) <= cache_timeout
             THEN "ret_cached" ELSE "acquire"]
  /\ UNCHANGED <<din, dout, clock, ver, adc, bq_lock, bq_instance, last_error, cache, opens,
                 endpoint, now, trace, data, resp, captured, solo>>

\* Mutant: the slot is never consulted.
CheckCache_AlwaysLock(h) ==
  /\ pc[h] = "check"
  /\ pc' = [pc EXCEPT ![h] = "acquire"]
  /\ UNCHANGED <<din, dout, clock, ver, adc, bq_lock, bq_instance, last_error, cache, opens,
                 endpoint, now, trace, data, resp, captured, solo>>

\* monitor.py:62  the freshness test of /battery.
CheckCache(h) ==
  /\ pc[h] = "check"
  /\ pc' = [pc EXCEPT ![h] = IF IsFresh(cache, now[h]) THEN "ret_cached" ELSE "acquire"]
  /\ UNCHANGED <<din, dout, clock, ver, adc, bq_lock, bq_instance, last_error, cache, opens,
                 endpoint, now, trace, data, resp, captured, solo>>

\* monitor.py:63  return jsonify(cache['data']), 200
ReturnCached(h) ==
  /\ pc[h] = "ret_cached"
  /\ resp' = [resp EXCEPT ![h] = [code |-> 200, body |-> cache["data"]]]
  /\ pc' = [pc EXCEPT ![h] = "done"]
  /\ UNCHANGED <<din, dout, clock, ver, adc, bq_lock, bq_instance, last_error, cache, opens,
                 endpoint, now, trace, data, captured, solo>>

\* Mutant: the lock is taken without waiting for it to be free.
AcquireLock_NoWait(h) ==
  /\ pc[h] = "acquire"
  /\ bq_lock' = h
  /\ pc' = [pc EXCEPT ![h] = "getinst"]
  /\ UNCHANGED <<din, dout, clock, ver, adc, bq_instance, last_error, cache, opens,
                 endpoint, now, trace, data, resp, captured, solo>>

\* `with bq_lock:` entry: blocks until the lock is free.
AcquireLock(h) ==
  /\ pc[h] = "acquire"
  /\ bq_lock = None
  /\ bq_lock' = h
  /\ pc' = [pc EXCEPT ![h] = "getinst"]
  /\ UNCHANGED <<din, dout, clock, ver, adc, bq_instance, last_error, cache, opens,
                 endpoint, now, trace, data, resp, captured, solo>>

\* Where a handler goes once get_bq_instance has returned an instance:
\* /health answers, the others start their driver call.
AfterInstance(h) ==
  IF endpoint[h] = "health"
  THEN /\ pc' = [pc EXCEPT ![h] = "done"]
       /\ resp' = [resp EXCEPT ![h] = [code |-> 200, body |-> [status |-> "healthy"]]]
       /\ captured' = captured
  ELSE /\ pc' = [pc EXCEPT ![h] = "io"]
       /\ resp' = resp
       /\ captured' = [captured EXCEPT ![h] = endpoint[h] = "battery"]

\* monitor.py:27  if bq_instance is None
get_bq_instance(h) ==
  /\ pc[h] = "getinst"
  /\ IF bq_instance = None
     THEN /\ pc' = [pc EXCEPT ![h] = "open"]
          /\ UNCHANGED <<resp, captured>>
     ELSE AfterInstance(h)
  /\ UNCHANGED <<din, dout, clock, ver, adc, bq_lock, bq_instance, last_error, cache, opens,
                 endpoint, now, trace, data, solo>>

\* monitor.py:29-30  the constructor opens the bus and the instance is stored.
OpenOk(h) ==
  /\ pc[h] = "open"
  /\ opens' = opens + 1
  /\ bq_instance' = opens + 1
  /\ last_error' = "None"
  /\ AfterInstance(h)
  /\ UNCHANGED <<din, dout, clock, ver, adc, bq_lock, cache, endpoint, now, trace, data, solo>>

\* Mutant: the exception leaves the handler with the lock still held.
Raise_KeepsLock(h, e) ==
  /\ bq_lock' = bq_lock
  /\ pc' = [pc EXCEPT ![h] = "done"]
  /\ resp' = [resp EXCEPT ![h] =
               [code |-> IF endpoint[h] = "health" THEN 503 ELSE 500, body |-> ErrorBody(e)]]

\* An exception leaves the handler: `with` releases the lock when the handler
\* holds it, and the except clause answers 500 (503 for /health) with str(e).
Raise(h, e) ==
  /\ bq_lock' = IF bq_lock = h THEN None ELSE bq_lock
  /\ pc' = [pc EXCEPT ![h] = "done"]
  /\ resp' = [resp EXCEPT ![h] =
               [code |-> IF endpoint[h] = "health" THEN 503 ELSE 500, body |-> ErrorBody(e)]]

\* Mutant: the instance is stored although its constructor raised.
OpenFail_CachesInstance(h) ==
  /\ pc[h] = "open"
  /\ last_error' = "bus open failed"
  /\ bq_instance' = opens + 1
  /\ Raise(h, "bus open failed")
  /\ UNCHANGED <<din, dout, clock, ver, adc, cache, opens, endpoint, now, trace,
                 data, captured, solo>>

\* monitor.py:32-35  the constructor raises: last_error is set, nothing else.
OpenFail(h) ==
  /\ pc[h] = "open"
  /\ last_error' = "bus open failed"
  /\ Raise(h, "bus open failed")
  /\ UNCHANGED <<din, dout, clock, ver, adc, bq_instance, cache, opens, endpoint, now, trace,
                 data, captured, solo>>

\* The next bus operation of the handler's driver call.
NextOp(h) == DriverCall(endpoint[h])[Len(trace[h]) + 1]

\* One bus operation succeeds. The last one ends the driver call, whose result
\* is computed from the bytes read (get_all_data stamps it with time.time()).
BusOp(h) ==
  /\ pc[h] = "io"
  /\ LET prog == DriverCall(endpoint[h])
         o == NextOp(h)
         done == IF o.op = "read" THEN [o EXCEPT !.val = RegByte(ver, o.reg)] ELSE o
         tr == Append(trace[h], done)
     IN  /\ trace' = [trace EXCEPT ![h] = tr]
         /\ adc' = CASE o.op = "write" /\ o.reg = REG_ADC_CTRL /\ o.val = ADC_ENABLE /\ adc = "off"
                          -> "enabled"
                     [] o.op = "sleep" /\ adc = "enabled" -> "settled"
                     [] OTHER -> adc
         /\ IF Len(tr) = Len(prog)
            THEN /\ data' = [data EXCEPT ![h] = DriverResult(endpoint[h], ReadBytes(tr), clock)]
                 /\ pc' = [pc EXCEPT ![h] = "release"]
            ELSE UNCHANGED <<data, pc>>
  /\ UNCHANGED <<din, dout, clock, ver, bq_lock, bq_instance, last_error, cache, opens,
                 endpoint, now, resp, captured, solo>>

\* Mutant: a bus error empties the slot.
BusFail_DropsCache(h) ==
  /\ pc[h] = "io"
  /\ Raise(h, "bus read failed")
  /\ trace' = [trace EXCEPT ![h] = <<>>]
  /\ cache' = EmptyDict
  /\ UNCHANGED <<din, dout, clock, ver, adc, bq_instance, last_error, opens, endpoint,
                 now, data, captured, solo>>

\* Mutant: a bus error is swallowed and what was read so far is returned.
BusFail_PartialSnapshot(h) ==
  /\ pc[h] = "io"
  /\ data' = [data EXCEPT ![h] = [partial |-> ReadBytes(trace[h])]]
  /\ pc' = [pc EXCEPT ![h] = "release"]
  /\ UNCHANGED <<din, dout, clock, ver, adc, bq_lock, bq_instance, last_error, cache, opens,
                 endpoint, now, trace, resp, captured, solo>>

\* The next bus operation raises (OSError from smbus2).
BusFail(h) ==
  /\ pc[h] = "io"
  /\ Raise(h, "bus read failed")
  /\ trace' = [trace EXCEPT ![h] = <<>>]
  /\ UNCHANGED <<din, dout, clock, ver, adc, bq_instance, last_error, cache, opens, endpoint,
                 now, data, captured, solo>>

\* End of the `with bq_lock:` block. The single-value routes answer right
\* after it; /battery still has its cache update to do.
ReleaseLock(h) ==
  /\ pc[h] = "release"
  /\ bq_lock' = None
  /\ IF endpoint[h] = "battery"
     THEN /\ pc' = [pc EXCEPT ![h] = "store"]
          /\ resp' = resp
     ELSE /\ pc' = [pc EXCEPT ![h] = "done"]
          /\ resp' = [resp EXCEPT ![h] = [code |-> 200, body |-> data[h]]]
  /\ UNCHANGED <<din, dout, clock, ver, adc, bq_instance, last_error, cache, opens,
                 endpoint, now, trace, data, captured, solo>>

\* Mutant: the slot is filled key by key, the snapshot first.
StoreCache_DataOnly(h) ==
  /\ pc[h] = "store"
  /\ cache' = [data |-> data[h]]
  /\ resp' = [resp EXCEPT ![h] = [code |-> 200, body |-> data[h]]]
  /\ pc' = [pc EXCEPT ![h] = "done"]
  /\ UNCHANGED <<din, dout, clock, ver, adc, bq_lock, bq_instance, last_error, opens,
                 endpoint, now, trace, data, captured, solo>>

\* monitor.py:71-76  cache = {'data': data, 'timestamp': now}; return data
StoreCache(h) ==
  /\ pc[h] = "store"
  /\ cache' = [data |-> data[h], timestamp |-> now[h]]
  /\ resp' = [resp EXCEPT ![h] = [code |-> 200, body |-> data[h]]]
  /\ pc' = [pc EXCEPT ![h] = "done"]
  /\ UNCHANGED <<din, dout, clock, ver, adc, bq_lock, bq_instance, last_error, opens,
                 endpoint, now, trace, data, captured, solo>>

\* Time passes; a second is more than the ADC's 100 ms settling time.
Tick ==
  /\ clock < MaxTime
  /\ clock' = clock + 1
  /\ adc' = IF adc = "enabled" THEN "settled" ELSE adc
  /\ UNCHANGED <<din, dout, ver, bq_lock, bq_instance, last_error, cache, opens, pc, endpoint,
                 now, trace, data, resp, captured, solo>>

Next ==
  \/ \E h \in Handlers : \E e \in Endpoints : Start(h, e)
  \/ \E h \in Handlers : CheckCache(h)
  \/ \E h \in Handlers : ReturnCached(h)
  \/ \E h \in Handlers : AcquireLock(h)
  \/ \E h \in Handlers : get_bq_instance(h)
  \/ \E h \in Handlers : OpenOk(h)
  \/ \E h \in Handlers : OpenFail(h)
  \/ \E h \in Handlers : BusOp(h)
  \/ \E h \in Handlers : BusFail(h)
  \/ \E h \in Handlers : ReleaseLock(h)
  \/ \E h \in Handlers : StoreCache(h)
  \/ Tick

Spec == Init /\ [][Next]_vars

\* --------------------------------------------------- the decoders on their own
\* The register decoders of the driver applied to every raw input: the bytes
\* are what bus.read_byte_data can return, the service stays as started.
Bytes == 0..255

DecoderInputs ==
  [fn : {"status"}, a : Bytes, b : {0, 4, 128, 132}, c : {0, 8}]
    \cup [fn : {"current", "faults"}, a : Bytes, b : Bytes, c : {0}]

InitDecode ==
  /\ ServiceInit
  /\ din \in DecoderInputs
  /\ dout = NoData

\* get_charger_status on status1 = a, status0 = b, status2 = c.
DecodeChargerStatus ==
  /\ din.fn = "status" /\ dout = NoData
  /\ dout' = decode_charger_status(din.b, din.a, din.c)
  /\ UNCHANGED <<din, clock, ver, adc, bq_lock, bq_instance, last_error, cache, opens,
                 pc, endpoint, now, trace, data, resp, captured, solo>>

\* get_battery_current on msb = a, lsb = b.
DecodeCurrent ==
  /\ din.fn = "current" /\ dout = NoData
  /\ dout' = [current |-> decode_signed_current(Word(din.a, din.b))]
  /\ UNCHANGED <<din, clock, ver, adc, bq_lock, bq_instance, last_error, cache, opens,
                 pc, endpoint, now, trace, data, resp, captured, solo>>

\* get_fault_status on fault0 = a, fault1 = b.
DecodeFaults ==
  /\ din.fn = "faults" /\ dout = NoData
  /\ dout' = decode_fault_status(din.a, din.b)
  /\ UNCHANGED <<din, clock, ver, adc, bq_lock, bq_instance, last_error, cache, opens,
                 pc, endpoint, now, trace, data, resp, captured, solo>>

NextDecode ==
  \/ DecodeChargerStatus
  \/ DecodeCurrent
  \/ DecodeFaults

SpecDecode == InitDecode /\ [][NextDecode]_vars

\* ------------------------------------------- captures on a chip that converts
\* The chip finishes a conversion and updates its ADC registers, at any
\* moment, also between two bus reads of one capture.
ChipUpdate ==
  /\ ver < MaxVer
  /\ ver' = ver + 1
  /\ UNCHANGED <<din, dout, clock, adc, bq_lock, bq_instance, last_error, cache, opens,
                 pc, endpoint, now, trace, data, resp, captured, solo>>

\* One client polling /battery on a working bus while the chip converts.
NextChip ==
  \/ Start(1, "battery")
  \/ CheckCache(1)
  \/ ReturnCached(1)
  \/ AcquireLock(1)
  \/ get_bq_instance(1)
  \/ OpenOk(1)
  \/ BusOp(1)
  \/ ReleaseLock(1)
  \/ StoreCache(1)
  \/ ChipUpdate

SpecChip == Init /\ [][NextChip]_vars

\* ------------------------------------------------------- fair scheduling
\* A step of handler h that does not wait for anything: every thread keeps
\* running, and every bus operation and every open ends (well or badly).
Progress(h) ==
  \/ CheckCache(h)
  \/ ReturnCached(h)
  \/ get_bq_instance(h)
  \/ OpenOk(h)
  \/ OpenFail(h)
  \/ BusOp(h)
  \/ BusFail(h)
  \/ ReleaseLock(h)
  \/ StoreCache(h)

\* Threads are scheduled fairly, and a thread waiting for bq_lock gets it
\* if the lock becomes free again and again.
Fairness ==
  \A h \in Handlers : WF_vars(Progress(h)) /\ SF_vars(AcquireLock(h))

\* A burst: any requests of any routes, with any failures, all within one
\* second (the clock does not advance).
NextBurst ==
  \/ \E h \in Handlers : \E e \in Endpoints : Start(h, e)
  \/ \E h \in Handlers : CheckCache(h)
  \/ \E h \in Handlers : ReturnCached(h)
  \/ \E h \in Handlers : AcquireLock(h)
  \/ \E h \in Handlers : get_bq_instance(h)
  \/ \E h \in Handlers : OpenOk(h)
  \/ \E h \in Handlers : OpenFail(h)
  \/ \E h \in Handlers : BusOp(h)
  \/ \E h \in Handlers : BusFail(h)
  \/ \E h \in Handlers : ReleaseLock(h)
  \/ \E h \in Handlers : StoreCache(h)

SpecFair == Init /\ [][NextBurst]_vars /\ Fairness

\* ================================================================== claims
\* The slot holds a snapshot that is fresh for a request whose `now` is t
\* (written out from monitor.py:62, independently of the gate's own test).
SlotFreshAt(t) == "data" \in DOMAIN cache /\ (t - cache["timestamp"]) < 1

\* ------------------------------------------------------------------- C1
\* C1: mutual exclusion of bus access. In every reachable state at most one
\* handler is performing bus operations (a capture or a single-register
\* read), and the handler that does holds the lock.
C1_MutualExclusion ==
  /\ \A h, g \in Handlers : (pc[h] = "io" /\ pc[g] = "io") => h = g
  /\ \A h \in Handlers : pc[h] = "io" => bq_lock = h

\* A capture is in flight while another data request waits for the lock.
C1_Witness ==
  \E h, g \in Handlers :
    /\ h # g
    /\ pc[h] = "io" /\ endpoint[h] = "battery" /\ Len(trace[h]) > 2
    /\ pc[g] = "acquire"

\* ------------------------------------------------------------------- C2
\* C2: double-checked freshness. Of two /battery requests that read the same
\* `now` (a burst) and both answer 200, at most one performed a capture: the
\* other is answered from the slot the first one refreshed.
C2_BurstOneCapture ==
  \A h, g \in Handlers :
    ( /\ h # g
      /\ endpoint[h] = "battery" /\ endpoint[g] = "battery"
      /\ now[h] = now[g]
      /\ pc[h] = "done" /\ resp[h].code = 200
      /\ pc[g] = "done" /\ resp[g].code = 200 )
    => ~(captured[h] /\ captured[g])

\* ------------------------------------------------------------------- C3
\* C3: cache timing for sequential requests. A /battery request during which
\* no other request runs is answered from the slot, without a capture, exactly
\* when the slot holds a snapshot whose timestamp is less than cache_timeout
\* before the request's `now`; otherwise it issues one capture and the slot
\* then holds its snapshot under the timestamp `now`.
C3_SequentialCacheTiming ==
  \A h \in Handlers :
    (endpoint[h] = "battery" /\ solo[h]) =>
      /\ pc[h] = "ret_cached" => (SlotFreshAt(now[h]) /\ ~captured[h])
      /\ pc[h] \in {"acquire", "getinst", "open", "io", "release", "store"}
           => ~SlotFreshAt(now[h])
      /\ pc[h] \in {"io", "release", "store"} => captured[h]
      /\ (pc[h] = "done" /\ resp[h].code = 200) =>
           IF captured[h]
           THEN cache = [data |-> resp[h].body, timestamp |-> now[h]]
           ELSE SlotFreshAt(now[h]) /\ resp[h].body = cache["data"]

\* The third request of the scenario: alone, it finds a snapshot that is too
\* old and has just captured a new one.
C3_Witness ==
  \E h \in Handlers :
    /\ endpoint[h] = "battery" /\ solo[h] /\ pc[h] = "store"
    /\ "data" \in DOMAIN cache
    /\ now[h] - cache["timestamp"] >= 1

\* ------------------------------------------------------------------- C4
\* C4: a failed capture does not touch the cache. The step in which a
\* /battery request fails (open or bus error) answers 500 with an error body
\* and leaves the slot as it was; the slot only ever changes in the step that
\* ends a successful request, which stores the snapshot it returns.
C4_FailedCaptureKeepsCache ==
  [][ /\ \A h \in Handlers :
           (endpoint[h] = "battery" /\ pc[h] \in {"open", "io"} /\ pc'[h] = "done")
             => /\ cache' = cache
                /\ resp'[h].code = 500
                /\ resp'[h].body \in {ErrorBody("bus open failed"), ErrorBody("bus read failed")}
      /\ (cache' # cache) =>
           \E h \in Handlers :
             /\ pc[h] = "store" /\ pc'[h] = "done"
             /\ resp'[h].code = 200
             /\ cache' = [data |-> resp'[h].body, timestamp |-> now[h]]
    ]_vars

\* A capture has failed while the slot holds an earlier snapshot.
C4_Witness ==
  \E h \in Handlers :
    /\ endpoint[h] = "battery" /\ pc[h] = "done" /\ resp[h].code = 500
    /\ captured[h] /\ resp[h].body = ErrorBody("bus read failed")
    /\ "data" \in DOMAIN cache

\* ------------------------------------------------------------------- C5
\* C5: fast path. A /battery request that tests a fresh slot goes to the
\* cached answer; from there it can always complete, whoever holds the lock,
\* and completing returns the slot's snapshot with code 200 without taking
\* the lock and without any bus operation.
C5_FastPath ==
  [][ \A h \in Handlers :
        /\ (pc[h] = "check" /\ SlotFreshAt(now[h]) /\ pc'[h] # "check")
             => pc'[h] = "ret_cached"
        /\ pc[h] = "ret_cached" => ENABLED ReturnCached(h)
        /\ (pc[h] = "ret_cached" /\ pc'[h] # "ret_cached")
             => /\ pc'[h] = "done"
                /\ resp'[h] = [code |-> 200, body |-> cache["data"]]
                /\ bq_lock' = bq_lock /\ bq_lock # h
                /\ trace' = trace /\ trace[h] = <<>>
                /\ adc' = adc
    ]_vars

\* A request has been answered from the slot while another handler holds the
\* lock in the middle of a capture.
C5_Witness ==
  \E h, g \in Handlers :
    /\ h # g
    /\ endpoint[h] = "battery" /\ pc[h] = "done" /\ resp[h].code = 200
    /\ ~captured[h]
    /\ bq_lock = g /\ pc[g] = "io" /\ endpoint[g] = "battery"

\* ------------------------------------------------------------------- C6
\* C6: singleton device handle. The bus is opened successfully at most once
\* over the life of the process.
C6_SingleOpen == opens <= 1

\* ------------------------------------------------------------------- C7
\* C7: ADC enable precedes ADC reads. Whenever a handler has read a byte of
\* an ADC register, the chip's ADC has been enabled and has settled.
C7_AdcEnabledBeforeRead ==
  \A h \in Handlers :
    (\E i \in 1..Len(trace[h]) : trace[h][i].op = "read" /\ trace[h][i].reg \in AdcRegs)
      => adc = "settled"

\* ------------------------------------------------------------------- C8
\* The operation and register of each bus operation of a trace.
C8_Ops(tr) == [i \in 1..Len(tr) |-> <<tr[i].op, tr[i].reg>>]

C8_Enable == <<(<<"write", 37>>), (<<"sleep", 0>>)>>

C8_Read16(reg) == <<(<<"read", reg>>), (<<"read", reg + 1>>)>>

C8_Read8(reg) == <<(<<"read", reg>>)>>

\* The order the claim states: VBAT, IBAT, VSYS, VBUS, IBUS, TDIE, status, faults.
C8_StatedOrder ==
  C8_Enable \o C8_Read16(49) \o C8_Read16(41) \o C8_Read16(51) \o C8_Read16(43)
    \o C8_Read16(39) \o C8_Read16(55)
    \o C8_Read8(27) \o C8_Read8(28) \o C8_Read8(29) \o C8_Read8(32) \o C8_Read8(33)

\* The order of the code: VBAT, IBAT, VBAT, IBAT, VSYS, TDIE, VBUS, IBUS, VBUS,
\* IBUS, status, faults.
C8_CodeOrder ==
  C8_Enable \o C8_Read16(49) \o C8_Read16(41) \o C8_Read16(49) \o C8_Read16(41)
    \o C8_Read16(51) \o C8_Read16(55)
    \o C8_Read16(43) \o C8_Read16(39) \o C8_Read16(43) \o C8_Read16(39)
    \o C8_Read8(27) \o C8_Read8(28) \o C8_Read8(29) \o C8_Read8(32) \o C8_Read8(33)

\* C8 as stated: a completed capture has written 0x80 to ADC_CTRL, slept, and
\* then read VBAT, IBAT, VSYS, VBUS, IBUS, TDIE, CHARGER_STATUS_0..2 and
\* FAULT_STATUS_0..1 in that order, each 16-bit value as reg then reg+1.
C8_CaptureSequenceAsStated ==
  \A h \in Handlers :
    (endpoint[h] = "battery" /\ pc[h] = "release") => C8_Ops(trace[h]) = C8_StatedOrder

\* C8 as amended: at every point of a capture the bus operations done so far
\* are a prefix of: write 0x80 to ADC_CTRL, sleep, then read VBAT, IBAT, VBAT,
\* IBAT, VSYS, TDIE, VBUS, IBUS, VBUS, IBUS, CHARGER_STATUS_0..2,
\* FAULT_STATUS_0..1, each 16-bit value as reg then reg+1; the write carries
\* 0x80; a capture that returns has done all of them.
C8_CaptureSequence ==
  \A h \in Handlers :
    (endpoint[h] = "battery" /\ pc[h] \in {"io", "release", "store"}) =>
      /\ Len(trace[h]) <= Len(C8_CodeOrder)
      /\ C8_Ops(trace[h]) = SubSeq(C8_CodeOrder, 1, Len(trace[h]))
      /\ Len(trace[h]) >= 1 => trace[h][1].val = 128
      /\ pc[h] \in {"release", "store"} => Len(trace[h]) = Len(C8_CodeOrder)

\* A capture has run to its end.
C8_Witness ==
  \E h \in Handlers :
    endpoint[h] = "battery" /\ pc[h] = "release" /\ Len(trace[h]) = 27

\* ------------------------------------------------------------------- C9
C9_SnapshotKeys == {"battery", "system", "input", "status", "faults", "timestamp"}

\* C9: no partial snapshot. A request that failed answers an error body and
\* holds no data; a driver result exists only once every bus operation of the
\* call has been done (27 for a capture, 25 of them reads); the snapshot a
\* /battery request returns after a capture is the one built from all 25
\* bytes; and the slot only ever holds a snapshot with all its parts.
C9_NoPartialSnapshot ==
  /\ \A h \in Handlers :
       /\ (pc[h] = "done" /\ resp[h].code \in {500, 503}) =>
            /\ data[h] = NoData
            /\ DOMAIN resp[h].body = {"error"}
       /\ (data[h] # NoData) =>
            /\ Len(trace[h]) = Len(DriverCall(endpoint[h]))
            /\ endpoint[h] = "battery" =>
                 /\ Len(trace[h]) = 27 /\ Len(ReadBytes(trace[h])) = 25
                 /\ DOMAIN data[h] = C9_SnapshotKeys
       /\ (pc[h] = "done" /\ resp[h].code = 200 /\ captured[h]) =>
            /\ resp[h].body = data[h]
            /\ data[h] = all_data(ReadBytes(trace[h]), data[h].timestamp)
  /\ "data" \in DOMAIN cache =>
       /\ DOMAIN cache["data"] = C9_SnapshotKeys
       /\ DOMAIN cache["data"].battery = {"voltage", "current", "power"}
       /\ DOMAIN cache["data"].system = {"voltage", "temperature"}
       /\ DOMAIN cache["data"].input = {"voltage", "current", "power"}

\* A capture has failed on the bus while the slot holds a snapshot, and the
\* caller got the error.
C9_Witness ==
  \E h \in Handlers :
    /\ endpoint[h] = "battery" /\ pc[h] = "done" /\ captured[h]
    /\ resp[h] = [code |-> 500, body |-> ErrorBody("bus read failed")]
    /\ \E g \in Handlers : g # h /\ pc[g] = "done" /\ resp[g].code = 200 /\ captured[g]

\* ------------------------------------------------------------------- C10
\* C10: a failed open is not cached. The step in which an open fails leaves
\* bq_instance as it was and answers an error; a handler leaving the
\* get-or-create test goes on to open the bus exactly when no instance is
\* stored, and otherwise uses the stored one; the number of opened handles
\* only grows in a step of a handler that found no instance; and an instance
\* is stored exactly when some open has succeeded.
C10_FailedOpenNotCached ==
  [][ /\ \A h \in Handlers :
           /\ (pc[h] = "open" /\ pc'[h] = "done" /\ resp'[h].code \in {500, 503}) =>
                /\ bq_instance' = bq_instance
                /\ opens' = opens
                /\ resp'[h].body = ErrorBody("bus open failed")
           /\ (pc[h] = "getinst" /\ pc'[h] # "getinst") =>
                /\ (pc'[h] = "open") <=> (bq_instance = None)
                /\ bq_instance' = bq_instance /\ opens' = opens
      /\ (opens' # opens \/ bq_instance' # bq_instance) =>
           \E h \in Handlers : pc[h] = "open" /\ bq_instance' = opens' /\ opens' = opens + 1
      /\ (bq_instance = None) <=> (opens = 0)
    ]_vars

\* An open has failed, a later one has succeeded, and a request is using the
\* stored instance.
C10_Witness ==
  \E h, g \in Handlers :
    /\ h # g
    /\ pc[h] = "done" /\ resp[h].body = ErrorBody("bus open failed")
    /\ opens = 1 /\ bq_instance = 1
    /\ pc[g] = "io"

\* ------------------------------------------------------------------- C11
\* The charge phases in the order of their codes 0..7.
C11_Phases ==
  <<"Not Charging", "Trickle Charge", "Pre-charge", "Fast Charge (CC)",
    "Taper Charge (CV)", "Reserved", "Top-off Timer", "Charge Termination Done">>

C12_SignedCurrent ==
  (din.fn = "current" /\ dout # NoData) =>
    LET raw16 == (din.a * 256) + din.b
    IN  /\ raw16 <= 32767 => dout.current = raw16
        /\ raw16 >= 32768 => dout.current = raw16 - 65536
        /\ dout.current \in -32768..32767
        /\ (din.a = 0 /\ din.b = 0) => dout.current = 0
        /\ (din.a = 255 /\ din.b = 255) => dout.current = -1
        /\ (din.a = 128 /\ din.b = 0) => dout.current = -32768
        /\ (din.a = 127 /\ din.b = 255) => dout.current = 32767

\* 0xFFFF has been decoded, to -1 mA.
C12_Witness ==
  din.fn = "current" /\ din.a = 255 /\ din.b = 255 /\ dout # NoData /\ dout.current = -1

\* ------------------------------------------------------------------- C13
\* Bit number k (0..7) of a byte is set.
C13_BitSet(x, k) == (x \div (2 ^ k)) % 2 = 1

\* C13: fault-flag decoding. For every pair of bytes each of the 10 flags is
\* true exactly when its own bit is set (fault0 bits 7..1 for vac1_ovp,
\* vac2_ovp, conv_ocp, ibat_reg, ibus_reg, vbat_ovp, vbus_ovp; fault1 bits 7,
\* 6, 3 for vsys_ovp, tshut, bat_temp_fault); fault0 = 0x82 with fault1 = 0
\* sets vac1_ovp and vbus_ovp and nothing else.
C13_FaultFlags ==
  (din.fn = "faults" /\ dout # NoData) =>
    /\ DOMAIN dout = {"vac1_ovp", "vac2_ovp", "conv_ocp", "ibat_reg", "ibus_reg",
                      "vbat_ovp", "vbus_ovp", "vsys_ovp", "tshut", "bat_temp_fault"}
    /\ dout.vac1_ovp <=> C13_BitSet(din.a, 7)
    /\ dout.vac2_ovp <=> C13_BitSet(din.a, 6)
    /\ dout.conv_ocp <=> C13_BitSet(din.a, 5)
    /\ dout.ibat_reg <=> C13_BitSet(din.a, 4)
    /\ dout.ibus_reg <=> C13_BitSet(din.a, 3)
    /\ dout.vbat_ovp <=> C13_BitSet(din.a, 2)
    /\ dout.vbus_ovp <=> C13_BitSet(din.a, 1)
    /\ dout.vsys_ovp <=> C13_BitSet(din.b, 7)
    /\ dout.tshut <=> C13_BitSet(din.b, 6)
    /\ dout.bat_temp_fault <=> C13_BitSet(din.b, 3)
    /\ (din.a = 130 /\ din.b = 0) =>
         {k \in DOMAIN dout : dout[k]} = {"vac1_ovp", "vbus_ovp"}

\* fault0 = 0x82, fault1 = 0 has been decoded, with vac1_ovp and vbus_ovp set.
C13_Witness ==
  /\ din.fn = "faults" /\ din.a = 130 /\ din.b = 0 /\ dout # NoData
  /\ dout.vac1_ovp /\ dout.vbus_ovp /\ ~dout.vbat_ovp

\* ------------------------------------------------------------------- C14
\* C14: the cache slot is written inside the critical section. Every step
\* that changes the slot is taken by a handler that holds the lock.
C14_StoreUnderLock ==
  [][ (cache' # cache) => \E h \in Handlers : pc[h] = "store" /\ bq_lock = h ]_vars

\* ------------------------------------------------------------------- C15
\* C15: power is derived from the snapshot's own readings. In every snapshot
\* a capture returns, battery.power is the (rounded) product of the battery
\* voltage and current the snapshot reports, and input.power that of the
\* reported input voltage and current.
C15_PowerFromOwnReadings ==
  \A h \in Handlers :
    (endpoint[h] = "battery" /\ data[h] # NoData) =>
      /\ data[h].battery.power
           = round_milli(data[h].battery.voltage * data[h].battery.current)
      /\ data[h].input.power
           = round_milli(data[h].input.voltage * data[h].input.current)

\* ------------------------------------------------------------------- C16
\* C16: every data endpoint goes through the cache gate. A request to one of
\* the single-value routes, during which no other request runs and the slot
\* holds a snapshot that is still fresh, performs no bus operation.
C16_SingleRoutesUseCache ==
  \A h \in Handlers :
    ( /\ endpoint[h] \in {"voltage", "current", "status", "temperature", "faults"}
      /\ solo[h]
      /\ SlotFreshAt(clock) )
    => (pc[h] # "io" /\ trace[h] = <<>>)

\* ------------------------------------------------------------------- C17
\* C17: atomic publication. The slot is empty or holds both a snapshot and a
\* timestamp; every step that changes it stores, in one piece, the snapshot
\* built from all the bytes of one completed capture together with the `now`
\* of the request that made that capture; and a request answered from the
\* slot returns a whole snapshot that the slot holds.
C17_AtomicPublication ==
  [][ /\ cache = EmptyDict \/ DOMAIN cache = {"data", "timestamp"}
      /\ (cache' # cache) =>
           \E h \in Handlers :
             /\ pc[h] = "store" /\ captured[h]
             /\ Len(ReadBytes(trace[h])) = 25
             /\ cache' = [data |-> all_data(ReadBytes(trace[h]), data[h].timestamp),
                          timestamp |-> now[h]]
      /\ \A h \in Handlers :
           (pc[h] = "ret_cached" /\ pc'[h] = "done") =>
             /\ resp'[h].body = cache["data"]
             /\ DOMAIN resp'[h].body = C9_SnapshotKeys
    ]_vars

\* A request has been answered from the slot while another request, which
\* has captured, is about to replace the slot.
C17_Witness ==
  \E h, g \in Handlers :
    /\ endpoint[h] = "battery" /\ pc[h] = "done" /\ resp[h].code = 200 /\ ~captured[h]
    /\ endpoint[g] = "battery" /\ pc[g] = "store"

\* ------------------------------------------------------------------- C18
\* C18: the cache never goes backwards. The timestamp stored in the slot
\* never decreases.
C18_TimestampMonotone ==
  [][ ("timestamp" \in DOMAIN cache /\ "timestamp" \in DOMAIN cache')
        => cache'["timestamp"] >= cache["timestamp"] ]_vars

\* ------------------------------------------------------------------- C19
\* C19: bounded staleness. The timestamp stored in the slot is never later
\* than the capture time inside the stored snapshot, and every snapshot
\* returned from the fast path was captured less than cache_timeout before
\* the `now` of the request it is returned to.
C19_BoundedStaleness ==
  /\ "data" \in DOMAIN cache => cache["timestamp"] <= cache["data"].timestamp
  /\ \A h \in Handlers :
       (endpoint[h] = "battery" /\ pc[h] = "done" /\ resp[h].code = 200 /\ ~captured[h])
         => (now[h] - resp[h].body.timestamp) < 1

\* The part of C19 that is about the stored pair alone.
C19_StoredPairOnly ==
  "data" \in DOMAIN cache => cache["timestamp"] <= cache["data"].timestamp

\* ------------------------------------------------------------------- C20
\* C20: the lock is always released. A handler holds the lock only between
\* acquiring it and the end of its `with` block, never once it has answered
\* (or is about to store), also after a failed open or a failed bus
\* operation; and under fair scheduling every request is eventually answered.
C20_LockReleased ==
  /\ [](\A h \in Handlers :
          /\ bq_lock = h => (pc[h] \in {"getinst", "open", "io", "release"}
                               /\ endpoint[h] # "health")
          /\ pc[h] = "done" => resp[h].code \in {200, 500, 503})
  /\ \A h \in Handlers : Active(h) ~> (pc[h] = "done")

\* A request has failed inside the critical section and another handler has
\* taken the lock since.
C20_Witness ==
  \E h, g \in Handlers :
    /\ h # g
    /\ pc[h] = "done" /\ resp[h].code = 500
    /\ bq_lock = g /\ pc[g] = "io"

====
